---- MODULE Spec2Model ----
(***************************************************************************)
(* superquick: recursive file search (src/superquick/utils.py, cli.py).    *)
(*                                                                         *)
(* A string is a sequence of one-character strings, so that startswith,    *)
(* lower, lstrip, the substring test and pathlib's suffix are computed     *)
(* character by character.  An Optional value is a sequence of length 0    *)
(* (None) or 1.  A path is the sequence of names below the search root.    *)
(***************************************************************************)
EXTENDS Integers, Sequences, FiniteSets, TLC

(*************************** bounds of the model ***************************)
\* Longest path (in names below the root) that the walk may push.
MaxDepth == 3
\* Most filesystem errors (directory read, entry probe, stat) in one run.
MaxFaults == 1

(******************************* strings ***********************************)
None == << >>
Some(x) == << x >>

UpperSeq == <<"A", "B", "C", "D", "E", "F", "G", "H", "I", "J", "K", "L", "M",
             "N", "O", "P", "Q", "R", "S", "T", "U", "V", "W", "X", "Y", "Z">>
LowerSeq == <<"a", "b", "c", "d", "e", "f", "g", "h", "i", "j", "k", "l", "m",
             "n", "o", "p", "q", "r", "s", "t", "u", "v", "w", "x", "y", "z">>
DigitSeq == <<"0", "1", "2", "3", "4", "5", "6", "7", "8", "9">>
Range(f) == {f[i] : i \in DOMAIN f}
Digits == Range(DigitSeq)
\* [a-zA-Z] of _SIZE_RE
Letters == Range(LowerSeq) \cup Range(UpperSeq)
\* The characters of the model in code-point order.
CodePoints == <<" ", ".", "/">> \o DigitSeq \o UpperSeq \o <<"_">> \o LowerSeq
CharOrd(c) == CHOOSE i \in DOMAIN CodePoints : CodePoints[i] = c

\* str.lower() on one character
LowerChar(c) ==
    IF c \in Range(UpperSeq)
    THEN LowerSeq[CHOOSE i \in DOMAIN UpperSeq : UpperSeq[i] = c]
    ELSE c

\* str.lower()
Lower(s) == [i \in 1..Len(s) |-> LowerChar(s[i])]

\* str.lstrip(ch): drop every leading ch.
RECURSIVE LStrip(_, _)
LStrip(s, ch) ==
    IF s # << >> /\ Head(s) = ch THEN LStrip(Tail(s), ch) ELSE s

\* str.rstrip(ch)
RECURSIVE RStrip(_, _)
RStrip(s, ch) ==
    IF s # << >> /\ s[Len(s)] = ch THEN RStrip(SubSeq(s, 1, Len(s) - 1), ch) ELSE s

\* str.strip() (the only whitespace of the model is the space)
Strip(s) == RStrip(LStrip(s, " "), " ")

\* str.startswith(".")
StartsWithDot(s) == s # << >> /\ s[1] = "."

\* `sub in s`
Contains(s, sub) ==
    \E i \in 0..(Len(s) - Len(sub)) : SubSeq(s, i + 1, i + Len(sub)) = sub

\* str.rfind("."), 0-based, -1 when absent
RFindDot(s) ==
    LET ds == {i \in 1..Len(s) : s[i] = "."}
    IN  IF ds = {} THEN -1 ELSE (CHOOSE i \in ds : \A j \in ds : j <= i) - 1

\* pathlib PurePath.suffix of a name: name[i:] when 0 < i < len(name) - 1
\* for i = name.rfind("."), else "".
Suffix(name) ==
    LET i == RFindDot(name)
    IN  IF 0 < i /\ i < Len(name) - 1 THEN SubSeq(name, i + 1, Len(name)) ELSE << >>

\* utils._normalize_ext
NormalizeExt(ext) ==
    IF ext # None /\ ext[1] # << >> THEN Some(LStrip(Lower(ext[1]), ".")) ELSE None

DEFAULT_SKIP_DIRS ==
    { <<".", "g", "i", "t">>,
      <<"n", "o", "d", "e", "_", "m", "o", "d", "u", "l", "e", "s">>,
      <<".", "v", "e", "n", "v">>,
      <<"v", "e", "n", "v">>,
      <<"_", "_", "p", "y", "c", "a", "c", "h", "e", "_", "_">>,
      <<".", "p", "y", "t", "e", "s", "t", "_", "c", "a", "c", "h", "e">>,
      <<".", "m", "y", "p", "y", "_", "c", "a", "c", "h", "e">>,
      <<".", "r", "u", "f", "f", "_", "c", "a", "c", "h", "e">>,
      <<"d", "i", "s", "t">>,
      <<"b", "u", "i", "l", "d">>,
      <<".", "t", "o", "x">> }

(***************************** parse_size **********************************)
DigitVal(c) ==
    CASE c = "0" -> 0 [] c = "1" -> 1 [] c = "2" -> 2 [] c = "3" -> 3
      [] c = "4" -> 4 [] c = "5" -> 5 [] c = "6" -> 6 [] c = "7" -> 7
      [] c = "8" -> 8 [] c = "9" -> 9

RECURSIVE ToInt(_)
ToInt(ds) ==
    IF ds = << >> THEN 0 ELSE 10 * ToInt(SubSeq(ds, 1, Len(ds) - 1)) + DigitVal(ds[Len(ds)])

RECURSIVE Pow10(_)
Pow10(n) == IF n = 0 THEN 1 ELSE 10 * Pow10(n - 1)

\* Length of the longest prefix of s[from..] whose characters are all in cls.
RECURSIVE Run(_, _, _)
Run(s, from, cls) ==
    IF from <= Len(s) /\ s[from] \in cls THEN 1 + Run(s, from + 1, cls) ELSE 0

\* _SIZE_RE.match(s): ^\s*([0-9]+(?:\.[0-9]+)?)\s*([a-zA-Z]*)\s*$
\* The character classes are disjoint, so the greedy match is the only one.
SizeMatch(s) ==
    LET ws0  == Run(s, 1, {" "})
        i0   == 1 + ws0
        n1   == Run(s, i0, Digits)
        dot  == i0 + n1
        n2   == IF dot <= Len(s) /\ s[dot] = "." THEN Run(s, dot + 1, Digits) ELSE 0
        numEnd == IF n2 > 0 THEN dot + n2 ELSE dot - 1
        ws1  == Run(s, numEnd + 1, {" "})
        u0   == numEnd + 1 + ws1
        nu   == Run(s, u0, Letters)
        ws2  == Run(s, u0 + nu, {" "})
    IN  [ matched |-> n1 > 0 /\ u0 + nu + ws2 = Len(s) + 1,
          int     |-> SubSeq(s, i0, dot - 1),
          frac    |-> IF n2 > 0 THEN SubSeq(s, dot + 1, dot + n2) ELSE << >>,
          unit    |-> SubSeq(s, u0, u0 + nu - 1) ]

\* _SIZE_MULTIPLIERS as (known, value)
UnitKnown(u) ==
    u \in { <<"b">>, <<"k">>, <<"k", "b">>, <<"k", "i", "b">>,
            <<"m">>, <<"m", "b">>, <<"m", "i", "b">>,
            <<"g">>, <<"g", "b">>, <<"g", "i", "b">>,
            <<"t">>, <<"t", "b">>, <<"t", "i", "b">>,
            <<"p">>, <<"p", "b">>, <<"p", "i", "b">> }

Multiplier(u) ==
    CASE u = <<"b">> -> 1
      [] u[1] = "k" -> 1024
      [] u[1] = "m" -> 1024 * 1024
      [] u[1] = "g" -> 1024 * 1024 * 1024
      [] u[1] = "t" -> 1024 * 1024 * 1024 * 1024
      [] u[1] = "p" -> 1024 * 1024 * 1024 * 1024 * 1024

\* int(float(number_str) * mult): the decimal int.frac times mult, truncated.
ScaledValue(int, frac, mult) ==
    ((ToInt(int) * Pow10(Len(frac)) + ToInt(frac)) * mult) \div Pow10(Len(frac))

\* utils.parse_size: [raises |-> "" | "Invalid size" | "Unknown size unit", val |-> Optional int]
parse_size(size) ==
    IF size = None THEN [raises |-> "", val |-> None]
    ELSE LET s == Strip(size[1]) IN
         IF s = << >> THEN [raises |-> "", val |-> None]
         ELSE LET m == SizeMatch(s)
                  unit == Lower(m.unit)
              IN  IF ~m.matched THEN [raises |-> "Invalid size", val |-> None]
                  ELSE IF unit = << >>
                       THEN [raises |-> "", val |-> Some(ScaledValue(m.int, m.frac, 1))]
                  ELSE IF UnitKnown(unit)
                       THEN [raises |-> "",
                             val |-> Some(ScaledValue(m.int, m.frac, Multiplier(unit)))]
                  ELSE [raises |-> "Unknown size unit", val |-> None]

(****************************** filesystem *********************************)
\* A filesystem is a function from node ids 0..n (0 is the search root) to
\* [parent, name, kind, target, size, mtime]; kind is "dir", "file" or
\* "link", and a link's target is a dir or file node, or NoNode (dangling).
NoNode == 0 - 1

DirNode(p, name)  == [parent |-> p, name |-> name, kind |-> "dir",
                      target |-> NoNode, size |-> 0, mtime |-> 0]
FileNode(p, name, size, mtime) == [parent |-> p, name |-> name, kind |-> "file",
                      target |-> NoNode, size |-> size, mtime |-> mtime]
LinkNode(p, name, t) == [parent |-> p, name |-> name, kind |-> "link",
                      target |-> t, size |-> 0, mtime |-> 0]

VARIABLES
    fs,           \* the filesystem searched (does not change during a run)
    args,         \* the options of search(): follow_symlinks, ignore_hidden,
                  \* no_skip, substring, ext, min_size, max_size, sort, limit
    pc,           \* position in search(): "args", "walk", "scan", "limit",
                  \* "done", "failed"
    min_bytes,    \* Optional int
    max_bytes,    \* Optional int
    stack,        \* _walk_files: the work list, a sequence of paths
    current,      \* _walk_files: the directory being scanned
    pending,      \* the entries of current the scandir iterator has not returned yet
    rows,         \* search: the list of MatchRow
    errors,       \* search: the error counter
    presort,      \* history: rows as they were before the sort
    yielded,      \* history: bag of the paths _walk_files yielded
    pushed,       \* history: bag of the paths appended to the stack
    opened,       \* history: set of the paths os.scandir was called on
    readFailed,   \* history: paths whose directory read raised
    probeFailed,  \* history: paths whose is_dir()/is_file() raised
    statted,      \* history: paths path.stat() was called on
    statFailed    \* history: paths whose stat() raised

vars == << fs, args, pc, min_bytes, max_bytes, stack, current, pending, rows,
           errors, presort, yielded, pushed, opened, readFailed, probeFailed,
           statted, statFailed >>

Nodes == DOMAIN fs
Children(n) == {c \in Nodes : fs[c].parent = n}

\* What a path component that is a symlink resolves to.
Follow(n) ==
    IF n # NoNode /\ fs[n].kind = "link" THEN fs[n].target ELSE n

\* The node the operating system finds at a path below node n. (The
\* recursion goes through bound variables, which TLC holds as values.)
RECURSIVE ResolveFrom(_, _)
ResolveFrom(n, path) ==
    IF n = NoNode \/ path = << >> THEN n
    ELSE LET next == IF fs[n].kind # "dir" THEN {}
                     ELSE {Follow(c) : c \in {c \in Children(n) : fs[c].name = Head(path)}}
         IN  IF next = {} THEN NoNode
             ELSE CHOOSE r \in {ResolveFrom(t, rest) : t \in next, rest \in {Tail(path)}} : TRUE

Resolve(path) == ResolveFrom(0, path)

\* os.scandir(path): the entries (child nodes) of the directory at path.
ScanDir(path) == Children(Resolve(path))

\* Faulty variant of is_dir: the follow_symlinks flag is not passed on.
is_dir_following(c, follow) ==
    IF fs[c].kind = "link"
    THEN fs[c].target # NoNode /\ fs[fs[c].target].kind = "dir"
    ELSE fs[c].kind = "dir"

\* DirEntry.is_dir(follow_symlinks=follow)
is_dir(c, follow) ==
    IF fs[c].kind = "link"
    THEN follow /\ fs[c].target # NoNode /\ fs[fs[c].target].kind = "dir"
    ELSE fs[c].kind = "dir"

\* Faulty variant of is_file: the follow_symlinks flag is not passed on.
is_file_following(c, follow) ==
    IF fs[c].kind = "link"
    THEN fs[c].target # NoNode /\ fs[fs[c].target].kind = "file"
    ELSE fs[c].kind = "file"

\* DirEntry.is_file(follow_symlinks=follow)
is_file(c, follow) ==
    IF fs[c].kind = "link"
    THEN follow /\ fs[c].target # NoNode /\ fs[fs[c].target].kind = "file"
    ELSE fs[c].kind = "file"

\* Faulty variant of HiddenSkipped: endswith instead of startswith.
HiddenSkippedEnds(name) == args.ignore_hidden /\ name[Len(name)] = "."

\* utils._walk_files line 56: `ignore_hidden and name.startswith(".")`
HiddenSkipped(name) == args.ignore_hidden /\ StartsWithDot(name)

\* cli.search line 133
skip_dirs == IF args.no_skip THEN {} ELSE DEFAULT_SKIP_DIRS

\* Faulty variant of InSkipDirs: the skip list is consulted only with ignore_hidden.
InSkipDirsWhenHidden(name) == args.ignore_hidden /\ name \in skip_dirs

\* utils._walk_files line 61: `name in skip_dirs`
InSkipDirs(name) == name \in skip_dirs

Faults == Cardinality(readFailed) + Cardinality(probeFailed) + Cardinality(statFailed)

BagAdd(b, x) == IF x \in DOMAIN b THEN [b EXCEPT ![x] = @ + 1]
                ELSE [y \in DOMAIN b \cup {x} |-> IF y = x THEN 1 ELSE b[y]]
BagCount(b, x) == IF x \in DOMAIN b THEN b[x] ELSE 0
EmptyBag == [x \in {} |-> 0]

(************************** search: the filters ****************************)
\* `if x:` on an Optional[str]
Truthy(opt) == opt # None /\ opt[1] # << >>

\* cli.search line 128
sub_norm == IF Truthy(args.substring) THEN Some(Lower(args.substring[1])) ELSE None
\* cli.search line 127
ext_norm == NormalizeExt(args.ext)

\* Path.name
PathName(path) == path[Len(path)]

\* Faulty variant of NameFilter: the suffix is compared without lower-casing it.
NameFilterCaseSensitive(path) ==
    LET name == Lower(PathName(path))
    IN  /\ ~(Truthy(sub_norm) /\ ~Contains(name, sub_norm[1]))
        /\ ~(Truthy(ext_norm) /\ LStrip(Suffix(PathName(path)), ".") # ext_norm[1])

\* cli.search lines 145-150: TRUE when neither `continue` is taken.
NameFilter(path) ==
    LET name == Lower(PathName(path))
    IN  /\ ~(Truthy(sub_norm) /\ ~Contains(name, sub_norm[1]))
        /\ ~(Truthy(ext_norm) /\ LStrip(Lower(Suffix(PathName(path))), ".") # ext_norm[1])

\* cli.search lines 155-158: TRUE when neither `continue` is taken.
SizeFilter(size_b) ==
    /\ ~(min_bytes # None /\ size_b < min_bytes[1])
    /\ ~(max_bytes # None /\ size_b > max_bytes[1])

\* The node path.stat() reads for the path of entry c: stat follows symlinks.
StatNode(c) == Follow(c)

\* cli.search lines 160-170; size_human and the timestamp's text are left to
\* the renderers, mtime stands for the fixed-width mtime_iso string.
MatchRow(path, node) ==
    [path |-> path, size_bytes |-> fs[node].size, mtime |-> fs[node].mtime]

(************************** search: sort and limit *************************)
\* cli._output_paths with absolute = False: the path below root, "/"-joined.
RECURSIVE Display(_)
Display(path) ==
    IF path = << >> THEN << >>
    ELSE IF Len(path) = 1 THEN path[1]
    ELSE path[1] \o <<"/">> \o Display(Tail(path))

\* str < str: a is a proper prefix of b, or smaller where they first differ.
StrLess(a, b) ==
    \E i \in 1..Len(b) :
        /\ Len(a) >= i - 1
        /\ SubSeq(a, 1, i - 1) = SubSeq(b, 1, i - 1)
        /\ (Len(a) = i - 1 \/ CharOrd(a[i]) < CharOrd(b[i]))

\* key(r1) < key(r2) for the key functions of cli.search lines 178-182
KeyLess(key, r1, r2) ==
    CASE key = "size"  -> r1.size_bytes < r2.size_bytes
      [] key = "mtime" -> r1.mtime < r2.mtime
      [] OTHER         -> \E a \in {Lower(Display(r1.path))}, b \in {Lower(Display(r2.path))} :
                              StrLess(a, b)

\* list.sort(key=...) is stable and ascending: the place of seq[j] in the
\* result is one more than the number of elements with a smaller key, or
\* with an equal key and an earlier place.
Rank(key, seq, j) ==
    1 + Cardinality({ k \in 1..Len(seq) :
                        \/ KeyLess(key, seq[k], seq[j])
                        \/ (~KeyLess(key, seq[j], seq[k]) /\ k < j) })

StableSort(key, seq) ==
    [i \in 1..Len(seq) |-> seq[CHOOSE j \in 1..Len(seq) : Rank(key, seq, j) = i]]

Reverse(seq) == [i \in 1..Len(seq) |-> seq[Len(seq) + 1 - i]]

\* Faulty variant of SortReverse: ascending sort, then reversed.
SortThenReverse(key, seq) == Reverse(StableSort(key, seq))

\* list.sort(key=..., reverse=True): reverse, stable ascending sort, reverse.
SortReverse(key, seq) == Reverse(StableSort(key, Reverse(seq)))

\* cli.search lines 176-182
SortRows(seq, sort) ==
    LET key == Lower(sort)
    IN  IF key = <<"s", "i", "z", "e">> THEN SortReverse("size", seq)
        ELSE IF key = <<"m", "t", "i", "m", "e">> THEN StableSort("mtime", seq)
        ELSE StableSort("path", seq)

Max(a, b) == IF a >= b THEN a ELSE b

\* cli.search lines 185-186: rows[: max(0, limit)]
LimitRows(seq, limit) ==
    IF limit # None THEN SubSeq(seq, 1, IF Max(0, limit[1]) < Len(seq) THEN Max(0, limit[1]) ELSE Len(seq))
    ELSE seq

(******************************** inputs ***********************************)
Root == << >>

\* A tree with a directory d1 (plain, hidden, skip-listed or both) holding a
\* file and a skip-listed directory, a hidden file, and a directory c holding
\* a file and a symlink (dangling, to c itself, to a directory, to a file).
WalkFS(d1, lname, lt) ==
    [n \in 0..8 |->
        CASE n = 0 -> DirNode(NoNode, << >>)
          [] n = 1 -> DirNode(0, d1)
          [] n = 2 -> FileNode(1, <<"f", ".", "t", "x", "t">>, 1, 2)
          [] n = 3 -> DirNode(1, <<"d", "i", "s", "t">>)
          [] n = 4 -> FileNode(3, <<"B", ".", "T", "X", "T">>, 2, 1)
          [] n = 5 -> LinkNode(7, lname, lt)
          [] n = 6 -> FileNode(0, <<".", "g">>, 1, 3)
          [] n = 7 -> DirNode(0, <<"c">>)
          [] n = 8 -> FileNode(7, <<"k">>, 2, 1)]

\* A root holding one file.
OneFileFS(name, size) ==
    [n \in 0..1 |->
        CASE n = 0 -> DirNode(NoNode, << >>)
          [] n = 1 -> FileNode(0, name, size, 1)]

DirNames  == { <<"a">>, <<".", "h">>, <<"b", "u", "i", "l", "d">>, <<".", "g", "i", "t">> }
LinkTargets == { NoNode, 7, 3, 2 }
\* (name, target) of the symlink: each target under a plain name, and a
\* directory under a skip-listed name.
Links == ({ <<"l">> } \X LinkTargets) \cup { << <<"v", "e", "n", "v">>, 3 >> }

FileNames == { <<"a", ".", "t", "x", "t">>, <<"B", ".", "T", "X", "T">>,
               <<"n", "o", "t", "e", ".", "m", "d">>, <<".", "t", "x", "t">>,
               <<"t", "x", "t">>, <<"a", ".", "b", ".", "t", "x", "t">> }
Substrings == { None, Some(<<"A">>), Some(<<"t", "x">>) }
Extensions == { None, Some(<<"t", "x", "t">>), Some(<<".", "T", "X", "T">>),
                Some(<<".">>), Some(<<"m", "d">>) }
FileSizes == { 1024, 1536 }
MinSizes == { None, Some(<<"1", ".", "5", "K", "i", "B">>) }
MaxSizes == { None, Some(<<"1", "k">>) }
SizeStrings == { None, Some(<< >>), Some(<<" ">>), Some(<<"2">>), Some(<<"1", ".", "9">>),
                 Some(<<" ", "1", " ", "k", "b", " ">>), Some(<<"1", "G">>),
                 Some(<<"1", ".">>), Some(<<".", "5">>), Some(<<"a", "b", "c">>),
                 Some(<<"5", "x", "q">>), Some(<<"1", " ", "k", " ", "b">>) }
BySize == <<"S", "i", "z", "e">>
ByPath == <<"p", "a", "t", "h">>
SortInputs == { ByPath, BySize, <<"m", "t", "i", "m", "e">>, <<"n", "a", "m", "e">> }
LimitInputs == { None, Some(0 - 1), Some(0), Some(2) }

Args(follow, hidden, noskip, sub, ext, mn, mx, sort, limit) ==
    [follow_symlinks |-> follow, ignore_hidden |-> hidden, no_skip |-> noskip,
     substring |-> sub, ext |-> ext, min_size |-> mn, max_size |-> mx,
     sort |-> sort, limit |-> limit]

\* Walks of the tree under every policy, no filter, sorted by size.
WalkInputs ==
    { << WalkFS(d1, ln[1], ln[2]), Args(fo, hi, ns, None, None, None, None, BySize, None) >> :
        d1 \in DirNames, ln \in Links,
        fo \in BOOLEAN, hi \in BOOLEAN, ns \in BOOLEAN }

\* Every sort key and limit on the rows of one tree.
SortLimitInputs ==
    { << WalkFS(<<"a">>, <<"l">>, 2),
         Args(TRUE, FALSE, TRUE, None, None, None, None, so, li) >> :
        so \in SortInputs, li \in LimitInputs }

\* One file against every combination of criteria.
FilterInputs ==
    { << OneFileFS(nm, sz), Args(FALSE, FALSE, FALSE, sub, ext, mn, mx, ByPath, None) >> :
        nm \in FileNames, sz \in FileSizes, sub \in Substrings, ext \in Extensions,
        mn \in MinSizes, mx \in MaxSizes }

\* Every pair of size strings, valid or not.
SizeInputs ==
    { << OneFileFS(<<"a">>, 1), Args(FALSE, TRUE, FALSE, None, None, mn, mx, ByPath, None) >> :
        mn \in SizeStrings, mx \in SizeStrings }

Inputs == WalkInputs \cup SortLimitInputs \cup FilterInputs \cup SizeInputs

\* The walks of the tree with each kind of symlink, for the termination check.
TerminationInputs ==
    { << WalkFS(<<"a">>, <<"l">>, lt),
         Args(fo, hi, FALSE, None, None, None, None, BySize, Some(2)) >> :
        lt \in LinkTargets, fo \in BOOLEAN, hi \in BOOLEAN }

(******************************** actions **********************************)
InitWith(inputs) ==
    /\ \E in \in inputs : fs = in[1] /\ args = in[2]
    /\ pc = "args"
    /\ min_bytes = None /\ max_bytes = None
    /\ stack = << >> /\ current = Root /\ pending = {}
    /\ rows = << >> /\ errors = 0 /\ presort = << >>
    /\ yielded = EmptyBag /\ pushed = EmptyBag /\ opened = {}
    /\ readFailed = {} /\ probeFailed = {} /\ statted = {} /\ statFailed = {}

Init == InitWith(Inputs)

\* Faulty variant of SizeArgsRaise: max_size is not validated before the walk.
SizeArgsRaiseMinOnly == parse_size(args.min_size).raises # ""

\* cli.search lines 130-131: TRUE when either parse_size call raises.
SizeArgsRaise ==
    parse_size(args.min_size).raises # "" \/ parse_size(args.max_size).raises # ""

\* cli.search lines 126-136, then the first resumption of _walk_files (line 47).
Validate ==
    /\ pc = "args"
    /\ IF SizeArgsRaise
       THEN /\ pc' = "failed"
            /\ UNCHANGED << min_bytes, max_bytes, stack >>
       ELSE /\ pc' = "walk"
            /\ min_bytes' = parse_size(args.min_size).val
            /\ max_bytes' = parse_size(args.max_size).val
            /\ stack' = << Root >>
    /\ UNCHANGED << fs, args, current, pending, rows, errors, presort,
                    yielded, pushed, opened, readFailed, probeFailed, statted, statFailed >>

\* Faulty variant of Popped: the directory is read but left on the stack.
PoppedPeek(st) == st

\* stack.pop(): what is left of the stack
Popped(st) == SubSeq(st, 1, Len(st) - 1)

\* Faulty variant of StackAfterReadError: the error ends the walk.
StackAbort(st) == << >>

\* utils._walk_files lines 68-69: the stack after a directory read raised
StackAfterReadError(st) == st

\* utils._walk_files lines 49-52: pop a directory and open it.
PopDir ==
    /\ pc = "walk" /\ stack # << >>
    /\ LET cur == stack[Len(stack)] IN
        /\ current' = cur
        /\ opened' = opened \cup {cur}
        /\ \/ /\ pending' = ScanDir(cur)
              /\ stack' = Popped(stack)
              /\ pc' = "scan"
              /\ UNCHANGED readFailed
           \/ /\ Faults < MaxFaults
              /\ readFailed' = readFailed \cup {cur}
              /\ stack' = StackAfterReadError(Popped(stack))
              /\ pending' = {}
              /\ pc' = "walk"
    /\ UNCHANGED << fs, args, min_bytes, max_bytes, rows, errors, presort,
                    yielded, pushed, probeFailed, statted, statFailed >>

\* utils._walk_files lines 53, 68-69: the iterator raises before it returns
\* the next entry; the entries not yet returned are lost.
ScanFail ==
    /\ pc = "scan" /\ pending # {} /\ Faults < MaxFaults
    /\ readFailed' = readFailed \cup {current}
    /\ stack' = StackAfterReadError(stack)
    /\ pending' = {}
    /\ pc' = "walk"
    /\ UNCHANGED << fs, args, min_bytes, max_bytes, current, rows, errors, presort,
                    yielded, pushed, opened, probeFailed, statted, statFailed >>

\* utils._walk_files line 53: the iterator is exhausted.
ScanEnd ==
    /\ pc = "scan" /\ pending = {}
    /\ pc' = "walk"
    /\ UNCHANGED << fs, args, min_bytes, max_bytes, stack, current, pending, rows, errors,
                    presort, yielded, pushed, opened, readFailed, probeFailed,
                    statted, statFailed >>

\* cli.search lines 144-173: the loop body for one yielded path.
SearchBody(path, node, statOk) ==
    IF ~NameFilter(path)
    THEN UNCHANGED << rows, errors, statted, statFailed >>
    ELSE /\ statted' = statted \cup {path}
         /\ IF ~statOk
            THEN /\ errors' = errors + 1
                 /\ statFailed' = statFailed \cup {path}
                 /\ UNCHANGED rows
            ELSE /\ UNCHANGED << errors, statFailed >>
                 /\ rows' = IF SizeFilter(fs[node].size)
                            THEN Append(rows, MatchRow(path, node))
                            ELSE rows

\* utils._walk_files lines 54-67: one entry of the directory being scanned.
ScanEntry ==
    /\ pc = "scan"
    /\ \E c \in pending :
         LET name == fs[c].name
             path == Append(current, name)
         IN
         /\ pending' = pending \ {c}
         /\ \/ \* line 56-57: hidden
               /\ HiddenSkipped(name)
               /\ UNCHANGED << stack, yielded, pushed, probeFailed, rows, errors,
                               statted, statFailed >>
            \/ \* lines 66-67: is_dir() or is_file() raises
               /\ ~HiddenSkipped(name)
               /\ Faults < MaxFaults
               /\ probeFailed' = probeFailed \cup {path}
               /\ UNCHANGED << stack, yielded, pushed, rows, errors, statted, statFailed >>
            \/ \* lines 60-62: a skip-listed directory
               /\ ~HiddenSkipped(name)
               /\ is_dir(c, args.follow_symlinks)
               /\ InSkipDirs(name)
               /\ UNCHANGED << stack, yielded, pushed, probeFailed, rows, errors,
                               statted, statFailed >>
            \/ \* lines 60-63: a directory to descend into
               /\ ~HiddenSkipped(name)
               /\ is_dir(c, args.follow_symlinks)
               /\ ~InSkipDirs(name)
               /\ Len(path) <= MaxDepth
               /\ stack' = Append(stack, path)
               /\ pushed' = BagAdd(pushed, path)
               /\ UNCHANGED << yielded, probeFailed, rows, errors, statted, statFailed >>
            \/ \* lines 64-65: a file, yielded to the loop of search
               /\ ~HiddenSkipped(name)
               /\ ~is_dir(c, args.follow_symlinks)
               /\ is_file(c, args.follow_symlinks)
               /\ yielded' = BagAdd(yielded, path)
               /\ \E statOk \in BOOLEAN :
                     /\ (~statOk => Faults < MaxFaults /\ NameFilter(path))
                     /\ SearchBody(path, StatNode(c), statOk)
               /\ UNCHANGED << stack, pushed, probeFailed >>
            \/ \* neither a directory nor a file
               /\ ~HiddenSkipped(name)
               /\ ~is_dir(c, args.follow_symlinks)
               /\ ~is_file(c, args.follow_symlinks)
               /\ UNCHANGED << stack, yielded, pushed, probeFailed, rows, errors,
                               statted, statFailed >>
    /\ pc' = "scan"
    /\ UNCHANGED << fs, args, min_bytes, max_bytes, current, presort,
                    opened, readFailed >>

\* cli.search lines 175-182: the walk is exhausted, the rows are sorted.
SortStage ==
    /\ pc = "walk" /\ stack = << >>
    /\ presort' = rows
    /\ rows' = SortRows(rows, args.sort)
    /\ pc' = "limit"
    /\ UNCHANGED << fs, args, min_bytes, max_bytes, stack, current, pending, errors,
                    yielded, pushed, opened, readFailed, probeFailed, statted, statFailed >>

\* cli.search lines 184-206: the limit, then the report of rows and errors.
LimitStage ==
    /\ pc = "limit"
    /\ rows' = LimitRows(rows, args.limit)
    /\ pc' = "done"
    /\ UNCHANGED << fs, args, min_bytes, max_bytes, stack, current, pending, errors,
                    presort, yielded, pushed, opened, readFailed, probeFailed,
                    statted, statFailed >>

Next ==
    \/ Validate
    \/ PopDir
    \/ ScanEntry
    \/ ScanFail
    \/ ScanEnd
    \/ SortStage
    \/ LimitStage

Spec == Init /\ [][Next]_vars

\* The program is sequential: it takes its next step whenever it has one.
\* (Whether a filesystem call fails is the environment's choice; ScanFail
\* needs no fairness.)
Fairness ==
    /\ WF_vars(Validate) /\ WF_vars(PopDir) /\ WF_vars(ScanEntry)
    /\ WF_vars(ScanEnd) /\ WF_vars(SortStage) /\ WF_vars(LimitStage)

FairSpec == InitWith(TerminationInputs) /\ [][Next]_vars /\ Fairness

(******************************* properties ********************************)
\* The walk has run to its end (the sort follows at once).
WalkFinished == pc \in {"limit", "done"}

Components(path) == {path[i] : i \in 1..Len(path)}
Ancestors(path) == {path[i] : i \in 1..(Len(path) - 1)}
\* The prefixes of a path, the root and the path itself included.
Prefixes(path) == {SubSeq(path, 1, k) : k \in 0..Len(path)}
ProperPrefixes(path) == {SubSeq(path, 1, k) : k \in 0..(Len(path) - 1)}
StackPaths == {stack[i] : i \in 1..Len(stack)}
RowPaths(seq) == {seq[i].path : i \in 1..Len(seq)}

\* The skip set search() hands to the walk, from the option alone.
SkipSet == IF args.no_skip THEN {} ELSE DEFAULT_SKIP_DIRS

\* C1: a directory named in the skip set is never put on the work list, and
\* no yielded file (or row) lies below a directory of such a name, whatever
\* ignore_hidden and follow_symlinks are.
C1_SkipDirsNeverDescended ==
    /\ \A p \in StackPaths \cup DOMAIN pushed \cup opened : Components(p) \cap SkipSet = {}
    /\ \A p \in DOMAIN yielded \cup RowPaths(rows) : Ancestors(p) \cap SkipSet = {}

\* C1 witness: with hidden entries included, a walk without errors has ended
\* on a tree whose directory "build" (or ".git") holds files, and has yielded
\* files of the sibling directory.
C1_Witness ==
    /\ pc = "done" /\ Faults = 0
    /\ ~args.ignore_hidden /\ ~args.no_skip
    /\ 8 \in Nodes /\ fs[1].name \in SkipSet /\ fs[1].kind = "dir"
    /\ <<fs[7].name, fs[8].name>> \in DOMAIN yielded

\* C2: with ignore_hidden, no yielded file and no directory on the work list
\* has a name starting with ".", nor lies below such a directory.
C2_HiddenNeverYielded ==
    args.ignore_hidden =>
        \A p \in StackPaths \cup DOMAIN pushed \cup opened \cup DOMAIN yielded \cup RowPaths(rows) :
            \A nm \in Components(p) : nm[1] # "."

\* C2 witness: a walk with ignore_hidden and without the skip list has ended
\* without errors on a tree with a hidden directory holding files and a
\* hidden file, and has yielded a file.
C2_Witness ==
    /\ pc = "done" /\ Faults = 0
    /\ args.ignore_hidden /\ args.no_skip
    /\ 8 \in Nodes /\ fs[1].name[1] = "." /\ fs[6].name[1] = "."
    /\ <<fs[7].name, fs[8].name>> \in DOMAIN yielded

\* The files the policy lets the walk reach below directory node d at path,
\* following at most depth further directories.
RECURSIVE FilesBelow(_, _, _)
FilesBelow(d, path, depth) ==
    UNION { LET c == cc
                nm == fs[c].name
                isLink == fs[c].kind = "link"
                t == IF isLink THEN fs[c].target ELSE c
                seen == ~(args.ignore_hidden /\ nm[1] = ".")
                       /\ (isLink => args.follow_symlinks /\ t # NoNode)
            IN  IF ~seen THEN {}
                ELSE IF fs[t].kind = "file" THEN { Append(path, nm) }
                ELSE IF nm \in SkipSet \/ depth = 0 THEN {}
                ELSE FilesBelow(t, Append(path, nm), depth - 1)
          : cc \in {n \in Nodes : fs[n].parent = d} }

\* C3: when the walk has ended, every file the policy reaches is yielded
\* unless a directory above it failed to read or an entry on its path failed
\* to be classified: a failed read loses only what lies below that directory.
C3_ReadErrorDropsOnlyThatDirectory ==
    WalkFinished =>
        \A p \in FilesBelow(0, Root, MaxDepth) :
            (ProperPrefixes(p) \cap readFailed = {} /\ Prefixes(p) \cap probeFailed = {})
                => BagCount(yielded, p) >= 1

\* C3 witness: the read of one subdirectory failed and the walk ended having
\* yielded a file of a sibling subdirectory.
C3_Witness ==
    /\ pc = "done"
    /\ \E d \in readFailed : d # Root /\
          \E p \in DOMAIN yielded : Len(p) = 2 /\ p[1] # d[1]

\* The regular files of the tree proper (no symlink on the way) that neither
\* ignore_hidden nor the skip list excludes, found from the parent pointers.
RECURSIVE RealPath(_)
RealPath(n) == IF n = 0 THEN Root ELSE Append(RealPath(fs[n].parent), fs[n].name)

RECURSIVE RealAncestors(_)
RealAncestors(n) == IF n = 0 THEN {} ELSE {fs[n].parent} \cup RealAncestors(fs[n].parent)

EligibleRegularFiles ==
    { RealPath(n) : n \in
        { f \in Nodes :
            /\ fs[f].kind = "file"
            /\ \A a \in RealAncestors(f) : fs[a].kind = "dir"
            /\ \A a \in RealAncestors(f) \ {0} : fs[a].name \notin SkipSet
            /\ args.ignore_hidden =>
                  \A a \in (RealAncestors(f) \ {0}) \cup {f} : fs[a].name[1] # "." } }

\* C10: without follow_symlinks and without filesystem errors nothing is
\* yielded or pushed twice, only eligible regular files are yielded, and when
\* the walk has ended every eligible regular file has been yielded once.
C10_EachEligibleFileOnce ==
    (~args.follow_symlinks /\ Faults = 0) =>
        /\ \A p \in DOMAIN yielded : yielded[p] = 1 /\ p \in EligibleRegularFiles
        /\ \A p \in DOMAIN pushed : pushed[p] = 1
        /\ WalkFinished => \A p \in EligibleRegularFiles : BagCount(yielded, p) = 1

\* C10 witness: such a walk has ended on the tree with a symlink to a
\* directory, having yielded files at depth 1 and 3.
C10_Witness ==
    /\ pc = "done" /\ ~args.follow_symlinks /\ Faults = 0
    /\ 8 \in Nodes /\ fs[5].target = 3
    /\ \E p \in DOMAIN yielded : Len(p) = 1
    /\ \E p \in DOMAIN yielded : Len(p) = 3

\* C4 (as claimed): at the end of the search the error counter that
\* search() reports has counted every directory whose read failed.
C4_ErrorsCountUnreadableDirs == pc = "done" => errors >= Cardinality(readFailed)

\* What the counter does count: the yielded files whose stat() raised.
C4_ErrorsCountStatFailures == errors = Cardinality(statFailed)

(* Nodes reachable from n through directory entries and symlink targets. *)
Succ(n) ==
    IF fs[n].kind = "dir" THEN {c \in Nodes : fs[c].parent = n}
    ELSE IF fs[n].kind = "link" /\ fs[n].target # NoNode THEN {fs[n].target}
    ELSE {}

RECURSIVE ReachN(_, _)
ReachN(S, k) == IF k = 0 THEN S ELSE ReachN(S \cup UNION {Succ(n) : n \in S}, k - 1)

\* A symlink to a directory from which the symlink itself can be reached.
HasSymlinkCycle ==
    \E l \in Nodes :
        /\ fs[l].kind = "link" /\ fs[l].target # NoNode
        /\ fs[fs[l].target].kind = "dir"
        /\ l \in ReachN({fs[l].target}, Cardinality(Nodes))

\* C5: a walk that has started ends, read errors or not, when follow_symlinks
\* is off or the filesystem has no symlink cycle.
C5_WalkTerminates ==
    (pc = "walk" /\ (~args.follow_symlinks \/ ~HasSymlinkCycle)) ~> WalkFinished

\* C5 witness: a walk that followed a symlink to a directory and met a read
\* error has ended.
C5_Witness ==
    /\ WalkFinished /\ args.follow_symlinks /\ ~HasSymlinkCycle
    /\ readFailed # {}
    /\ \E p \in DOMAIN pushed : fs[5].kind = "link" /\ PathName(p) = fs[5].name

\* C6: in a run whose min-size or max-size string parse_size rejects, no
\* directory is opened, nothing is yielded or stat-ed and no row exists.
C6_InvalidSizeStopsBeforeWalk ==
    (parse_size(args.min_size).raises # "" \/ parse_size(args.max_size).raises # "") =>
        /\ pc \in {"args", "failed"}
        /\ stack = << >> /\ opened = {} /\ statted = {}
        /\ DOMAIN yielded = {} /\ rows = << >>

\* C6 witness: the search has failed on an unknown unit in max-size after a
\* valid min-size.
C6_Witness ==
    /\ pc = "failed"
    /\ parse_size(args.min_size).raises = "" /\ parse_size(args.min_size).val # None
    /\ parse_size(args.max_size).raises = "Unknown size unit"

(* The criteria as the claim words them. *)
\* The text after the last "." of a name ("" when it has none).
AfterLastDot(name) ==
    LET ds == {i \in 1..Len(name) : name[i] = "."}
    IN  IF ds = {} THEN << >>
        ELSE SubSeq(name, (CHOOSE i \in ds : \A j \in ds : j <= i) + 1, Len(name))

SizeInRange(size) ==
    /\ min_bytes # None => size >= min_bytes[1]
    /\ max_bytes # None => size <= max_bytes[1]

\* The extension asked for, dot-stripped and lower-cased ("" when none is).
WantedExt == IF args.ext = None THEN << >> ELSE LStrip(Lower(args.ext[1]), ".")

ClaimedMatch(p) ==
    /\ args.substring # None => Contains(Lower(PathName(p)), Lower(args.substring[1]))
    /\ WantedExt # << >> => Lower(AfterLastDot(PathName(p))) = WantedExt
    /\ SizeInRange(fs[Resolve(p)].size)

\* pathlib's suffix without its dot: the text after the last "." when that
\* "." is neither the first nor the last character of the name, else "".
SuffixText(name) ==
    IF \E i \in 2..(Len(name) - 1) : name[i] = "." /\ \A j \in (i + 1)..Len(name) : name[j] # "."
    THEN AfterLastDot(name) ELSE << >>

AmendedMatch(p) ==
    /\ args.substring # None => Contains(Lower(PathName(p)), Lower(args.substring[1]))
    /\ WantedExt # << >> => Lower(SuffixText(PathName(p))) = WantedExt
    /\ SizeInRange(fs[Resolve(p)].size)

\* C7 (as claimed): a yielded file whose stat did not fail has a row if and
\* only if it meets all the criteria given, the extension (when one is left
\* after stripping its dots) being compared with the text after the last "."
\* of the name.
C7_RowIffCriteria ==
    WalkFinished =>
        \A p \in DOMAIN yielded \ statFailed : (p \in RowPaths(presort)) <=> ClaimedMatch(p)

\* C7 (amended): the same, the extension being compared with pathlib's
\* suffix of the name, which is empty for a name whose only "." is its first
\* character (".txt" does not match the extension "txt").
C7_RowIffCriteriaAmended ==
    WalkFinished =>
        \A p \in DOMAIN yielded \ statFailed : (p \in RowPaths(presort)) <=> AmendedMatch(p)

\* C7 witness: B.TXT of exactly max-size bytes has a row under the extension
\* ".TXT", a substring and both size bounds.
C7_Witness ==
    /\ WalkFinished
    /\ args.ext = Some(<<".", "T", "X", "T">>) /\ args.substring = Some(<<"t", "x">>)
    /\ min_bytes = None /\ max_bytes = Some(1024)
    /\ \E i \in 1..Len(presort) :
          presort[i].path = << <<"B", ".", "T", "X", "T">> >> /\ presort[i].size_bytes = 1024

Position(seq, x) == CHOOSE i \in 1..Len(seq) : seq[i] = x

\* C8: after a sort by size the rows are the rows from before the sort, each
\* once, sizes never increasing, rows of equal size in their former order.
C8_SizeSortStableDescending ==
    (pc = "limit" /\ Lower(args.sort) = <<"s", "i", "z", "e">>) =>
        /\ Len(rows) = Len(presort)
        /\ Cardinality(Range(presort)) = Len(presort)
        /\ Range(rows) = Range(presort)
        /\ \A i, j \in 1..Len(rows) :
              i < j => /\ rows[i].size_bytes >= rows[j].size_bytes
                       /\ rows[i].size_bytes = rows[j].size_bytes
                            => Position(presort, rows[i]) < Position(presort, rows[j])

\* C8 witness: a sort by size that moved rows, among them two pairs of
\* equal size.
C8_Witness ==
    /\ pc = "limit" /\ Lower(args.sort) = <<"s", "i", "z", "e">>
    /\ Len(rows) >= 4 /\ rows # presort
    /\ rows[1].size_bytes = rows[2].size_bytes
    /\ rows[3].size_bytes = rows[4].size_bytes
    /\ rows[2].size_bytes > rows[3].size_bytes

\* The symlink entries the walk has classified: (directory path, link node)
\* of each opened directory's entry that the iterator has returned, that
\* ignore_hidden did not drop, with no error on the directory or the entry.
ClassifiedLinks ==
    { e \in opened \X Nodes :
        /\ e[1] \notin readFailed
        /\ fs[e[2]].kind = "link"
        /\ fs[e[2]].parent = Resolve(e[1])
        /\ ~(pc = "scan" /\ current = e[1] /\ e[2] \in pending)
        /\ ~(args.ignore_hidden /\ fs[e[2]].name[1] = ".")
        /\ Append(e[1], fs[e[2]].name) \notin probeFailed }

TargetKind(l) == IF fs[l].target = NoNode THEN "none" ELSE fs[fs[l].target].kind

LinkFollowedRight(e) ==
    LET p == Append(e[1], fs[e[2]].name) IN
    /\ TargetKind(e[2]) = "dir" =>
          /\ (p \in DOMAIN pushed) <=> (fs[e[2]].name \notin SkipSet)
          /\ p \notin DOMAIN yielded
    /\ TargetKind(e[2]) = "file" => p \in DOMAIN yielded /\ p \notin DOMAIN pushed
    /\ TargetKind(e[2]) = "none" => p \notin DOMAIN yielded /\ p \notin DOMAIN pushed

\* C9 (as claimed): a classified symlink is, with follow_symlinks, pushed when
\* its target is a directory not skip-listed and yielded when its target is a
\* regular file; without follow_symlinks it is never pushed, and is yielded
\* when it resolves to a regular file.
C9_SymlinkClassification ==
    \A e \in ClassifiedLinks :
        LET p == Append(e[1], fs[e[2]].name) IN
        IF args.follow_symlinks THEN LinkFollowedRight(e)
        ELSE /\ p \notin DOMAIN pushed
             /\ TargetKind(e[2]) = "file" => p \in DOMAIN yielded

\* C9 (amended): without follow_symlinks a symlink is neither pushed nor
\* yielded, whatever it resolves to.
C9_SymlinkClassificationAmended ==
    \A e \in ClassifiedLinks :
        LET p == Append(e[1], fs[e[2]].name) IN
        IF args.follow_symlinks THEN LinkFollowedRight(e)
        ELSE p \notin DOMAIN pushed /\ p \notin DOMAIN yielded

\* C9 witness: without follow_symlinks the walk has classified a symlink to a
\* regular file and ended.
C9_Witness ==
    /\ pc = "done" /\ ~args.follow_symlinks
    /\ \E e \in ClassifiedLinks : TargetKind(e[2]) = "file"

====
